---- MODULE Spec2Model ----
(***************************************************************************)
(* lvm-backup.py: snapshot an LVM logical volume, mount the snapshot, run  *)
(* restic against it into a repository that lives on a target volume, and  *)
(* tear everything down again.  The program is sequential; every step of   *)
(* it is one external command run through runCommand / runCommandRetVal.   *)
(*                                                                         *)
(* Text.  A piece of text (a name, a path, a command word) is a sequence   *)
(* of symbols, each symbol standing for a fixed run of characters          *)
(* ("/dev/mapper/", "vg0", "-", "_snapshot", "1", ...).  The symbols used   *)
(* are uniquely decodable, so two texts are equal exactly when their       *)
(* symbol sequences are.  "-" is always a symbol of its own, which is what *)
(* lets to_device double it.                                               *)
(*                                                                         *)
(* The machine outside the program (volume manager, mount table, partition *)
(* maps) is state too: volumes, mounts, partmaps, dirs.  A command's exit  *)
(* code and effect are drawn from what that machine allows                 *)
(* (runCommandRetVal); any must-succeed command may also fail outright.    *)
(***************************************************************************)
EXTENDS Naturals, Sequences, FiniteSets, TLC

VARIABLES
    args,       \* parsed command line: [command, prune]
    yaml,       \* content of the configuration file
    config,     \* the global config object (line 13), filled by Config.__init__
    pc,         \* position of the program
    i,          \* index of the source the backup() loop is at
    exc,        \* the exception in flight while a finally block runs: the words of
                \* the failed command, <<>> when there is none
    result,     \* how the process ended: "running", "ok", "deps_missing", "uncaught"
    log,        \* every command issued so far, with its exit code
    volumes,    \* logical volumes known to the volume manager
    mounts,     \* the mount table
    partmaps,   \* devices that have partition mappings (kpartx)
    dirs,       \* mount directories that exist
    caller,     \* the Backup method that called into LVolume.mount / LVolume.umount
    other       \* a second process of the program started on the same configuration
                \* file: its pc, caller, i, exc and result while the first one runs

vars == <<args, yaml, config, pc, caller, i, exc, result, log, volumes, mounts, partmaps, dirs, other>>

world == <<volumes, mounts, partmaps, dirs>>

-----------------------------------------------------------------------------
\* Bounds of the model.

MaxSources == 2

\* longest generated name of a logical volume, in symbols
MaxLen == 3

\* how often the processor passes from one process to the other
MaxSwitches == 2

-----------------------------------------------------------------------------
\* Text helpers and the program's constants.

RESTIC == <<"restic">>

LVS == <<"lvs">>

\* An optional value of the configuration file: None when the key is absent,
\* Some(x) when it holds x.
None == <<>>

Some(x) == <<x>>

\* Replace that leaves the text as it is
Replace_unchanged(s) == s

\* str.replace("-", "--") on a text
RECURSIVE Replace(_)
Replace(s) ==
    IF s = <<>> THEN <<>>
    ELSE (IF Head(s) = "-" THEN <<"-", "-">> ELSE <<Head(s)>>) \o Replace(Tail(s))

\* "a" in a list of options
In(o, options) == o \in options

-----------------------------------------------------------------------------
\* class LVolume

LVolume(vg, lv, options, raw) == [vg |-> vg, lv |-> lv, options |-> options, raw |-> raw]

to_mount_dir(v) == config.mounts_dir \o <<"/">> \o v.vg \o <<"/">> \o v.lv

to_device(v) == <<"/dev/mapper/">> \o v.vg \o <<"-">> \o Replace(v.lv)

\* mount_device without the partition suffix of a raw volume
mount_device_whole_disk(v) == to_device(v)

\* the device LVolume.mount and LVolume.is_mounted work on
mount_device(v) == IF v.raw THEN to_device(v) \o <<"1">> ELSE to_device(v)

\* mount_options that asks for a read-only mount whatever ro is
mount_options_ro(v, ro) == <<(<<"-o">>), (<<"ro">>)>>

\* the option words of the mount command
mount_options(v, ro) ==
    IF ro THEN <<(<<"-o">>), (<<"ro">>)>>
    ELSE IF In("xfs", v.options) THEN <<(<<"-o">>), (<<"nouuid">>)>>
    ELSE <<>>

-----------------------------------------------------------------------------
\* class Source, class Snapshot, and the volume of a Backup

Source(vg, lv, options) ==
    [volume |-> LVolume(vg, lv, {}, FALSE),
     options |-> IF options = None \/ options = Some({}) THEN {} ELSE options[1]]

snapshot_lv(source) == source.volume.lv \o <<"_snapshot">>

Snapshot(source) ==
    [source |-> source,
     snapshot_lv |-> snapshot_lv(source),
     volume |-> LVolume(source.volume.vg, snapshot_lv(source), source.options, FALSE)]

\* Backup.volume: the target volume that hosts the repository
target_volume == LVolume(config.target_vg, config.target_lv, {}, FALSE)

\* source_volume of Backup.backup
source_volume(source) ==
    LET snapshot == Snapshot(source) IN
    IF In("raw", source.options)
    THEN LVolume(snapshot.volume.vg, snapshot.volume.lv, {}, TRUE)
    ELSE snapshot.volume

-----------------------------------------------------------------------------
\* The commands, as the words the shell runs; env holds the RESTIC_PASSWORD
\* assignment in front of a restic command.

Cmd(env, argv) == [env |-> env, argv |-> argv]

cmd_lvs(v) == Cmd(<<>>, <<(<<"lvs">>), to_device(v)>>)

cmd_lvremove(v) == Cmd(<<>>, <<(<<"lvremove">>), (<<"-y">>), v.vg \o <<"/">> \o v.lv>>)

cmd_lvcreate(snapshot) ==
    Cmd(<<>>, <<(<<"lvcreate">>), (<<"-s">>), (<<"-n">>), snapshot.snapshot_lv, (<<"-L">>), (<<"1G">>),
                snapshot.source.volume.vg \o <<"/">> \o snapshot.source.volume.lv>>)

cmd_findmnt(v) == Cmd(<<>>, <<(<<"findmnt">>), mount_device(v)>>)

cmd_mount(v, ro) ==
    Cmd(<<>>, <<(<<"mount">>)>> \o mount_options(v, ro) \o <<mount_device(v), to_mount_dir(v)>>)

cmd_umount(v) == Cmd(<<>>, <<(<<"umount">>), to_mount_dir(v)>>)

cmd_map_raw(v) == Cmd(<<>>, <<(<<"kpartx">>), (<<"-v">>), (<<"-a">>), to_device(v)>>)

cmd_unmap_raw(v) == Cmd(<<>>, <<(<<"kpartx">>), (<<"-d">>), to_device(v)>>)

cmd_restic(words) ==
    Cmd(<<"RESTIC_PASSWORD=">> \o config.password, <<RESTIC, (<<"-r">>), to_mount_dir(target_volume)>> \o words)

cmd_snapshots == cmd_restic(<<(<<"snapshots">>)>>)

cmd_backup(snapshot) == cmd_restic(<<(<<"backup">>), to_mount_dir(snapshot.volume)>>)

\* keep_flag that tests the count for being configured, not for being non-zero
keep_flag_configured(flag, n) == IF n = None THEN <<>> ELSE <<(<<flag>>), (<<ToString(n[1])>>)>>

\* keep of Backup.cleanup: one word per shell word of the f-strings
keep_flag(flag, n) == IF n = None \/ n = Some(0) THEN <<>> ELSE <<(<<flag>>), (<<ToString(n[1])>>)>>

keep ==
    keep_flag("--keep-hourly", config.hourlySnapshots)
    \o keep_flag("--keep-daily", config.dailySnapshots)
    \o keep_flag("--keep-weekly", config.weeklySnapshots)
    \o keep_flag("--keep-monthly", config.monthlySnapshots)
    \o (IF config.prune THEN <<(<<"--prune">>)>> ELSE <<>>)

cmd_forget == cmd_restic(<<(<<"forget">>)>> \o keep)

-----------------------------------------------------------------------------
\* The machine the commands act on.  runCommandRetVal(cmd) is the set of
\* outcomes subprocess.Popen(cmd, shell=True) can have in the current state:
\* an exit code and the state the command leaves.  Exit code 1 stands for
\* any non-zero code.

\* the device-mapper node of a logical volume
DeviceNode(v) == <<"/dev/mapper/">> \o Replace(v.vg) \o <<"-">> \o Replace(v.lv)

\* the node of the first partition of a mapped device
Partition(dev) == dev \o <<"1">>

DeviceExists(dev) ==
    \/ \E v \in volumes : DeviceNode(v) = dev
    \/ \E d \in partmaps : Partition(d) = dev

IsMounted(dev) == \E m \in mounts : m.device = dev

\* a volume is in use while it, or a partition mapped from it, is open
InUse(v) ==
    \/ IsMounted(DeviceNode(v))
    \/ DeviceNode(v) \in partmaps

Outcome(rc, vs, ms, ps) == [rc |-> rc, volumes |-> vs, mounts |-> ms, partmaps |-> ps]

Unchanged(rc) == Outcome(rc, volumes, mounts, partmaps)

\* lvs <device>, findmnt <device>: probes, decided by the state
env_lvs(argv) ==
    IF Len(argv) = 1 THEN {Unchanged(0), Unchanged(1)}
    ELSE IF \E v \in volumes : DeviceNode(v) = argv[2] THEN {Unchanged(0)} ELSE {Unchanged(1)}

env_findmnt(argv) == IF IsMounted(argv[2]) THEN {Unchanged(0)} ELSE {Unchanged(1)}

\* lvremove -y <vg>/<lv>
env_lvremove(argv) ==
    {Unchanged(1)} \cup
    {Outcome(0, volumes \ {v}, mounts, partmaps) :
        v \in {u \in volumes : u.vg \o <<"/">> \o u.lv = argv[3] /\ ~InUse(u)}}

\* lvcreate -s -n <name> -L 1G <vg>/<lv>
env_lvcreate(argv) ==
    {Unchanged(1)} \cup
    {Outcome(0, volumes \cup {[vg |-> o.vg, lv |-> argv[4], gen |-> Len(log) + 1]}, mounts, partmaps) :
        o \in {u \in volumes : /\ u.vg \o <<"/">> \o u.lv = argv[7]
                               /\ ~\E w \in volumes : w.vg = u.vg /\ w.lv = argv[4]}}

\* mount [-o <option>] <device> <dir>
env_mount(argv) ==
    LET n == Len(argv)
        m == [device |-> argv[n - 1], dir |-> argv[n], ro |-> (n = 5 /\ argv[3] = <<"ro">>)]
    IN  {Unchanged(1)} \cup
        IF /\ DeviceExists(m.device)
           /\ m.dir \in dirs
           /\ ~\E x \in mounts : x.device = m.device /\ x.dir = m.dir
        THEN {Outcome(0, volumes, mounts \cup {m}, partmaps)}
        ELSE {}

\* umount <dir>
env_umount(argv) ==
    {Unchanged(1)} \cup
    {Outcome(0, volumes, mounts \ {m}, partmaps) : m \in {x \in mounts : x.dir = argv[2]}}

\* kpartx -v -a <device>, kpartx -d <device>
env_kpartx(argv) ==
    {Unchanged(1)} \cup
    IF argv[2] = <<"-d">>
    THEN IF DeviceExists(argv[3]) /\ ~IsMounted(Partition(argv[3]))
         THEN {Outcome(0, volumes, mounts, partmaps \ {argv[3]})} ELSE {}
    ELSE IF \E v \in volumes : DeviceNode(v) = argv[4]
         THEN {Outcome(0, volumes, mounts, partmaps \cup {argv[4]})} ELSE {}

\* restic: its effect on the repository is not part of the state
env_restic(argv) == {Unchanged(0), Unchanged(1)}

runCommandRetVal(cmd) ==
    LET argv == cmd.argv
        prog == argv[1][1]
    IN  CASE prog = "lvs" -> env_lvs(argv)
          [] prog = "findmnt" -> env_findmnt(argv)
          [] prog = "lvremove" -> env_lvremove(argv)
          [] prog = "lvcreate" -> env_lvcreate(argv)
          [] prog = "mount" -> env_mount(argv)
          [] prog = "umount" -> env_umount(argv)
          [] prog = "kpartx" -> env_kpartx(argv)
          [] prog = "restic" -> env_restic(argv)

\* The command is logged with its exit code and the machine takes the outcome's
\* state.  ignore is the parameter of runCommandRetVal: FALSE when the call
\* comes through runCommand.
Issue(cmd, o, ignore) ==
    /\ log' = Append(log, [at |-> pc, by |-> caller, src |-> i, env |-> cmd.env, argv |-> cmd.argv,
                           ignore |-> ignore, rc |-> o.rc])
    /\ volumes' = o.volumes
    /\ mounts' = o.mounts
    /\ partmaps' = o.partmaps

-----------------------------------------------------------------------------
\* The inputs: the configuration file, the command line, and the state the
\* machine is in when the program starts.

mounts_dir == <<"/mnt">>

TargetVG == <<"vgb">>

TargetLV == <<"repo">>

\* no second process
NoOther == [pc |-> "exit", caller |-> "", i |-> 0, exc |-> <<>>, result |-> "none", left |-> 0]

\* the LV entries a configuration file may list, with the name of their VG
SourcePool ==
    { [vg |-> <<"vg0">>, name |-> <<"data", "-", "01">>, options |-> None],
      [vg |-> <<"vg0">>, name |-> <<"data", "-", "01">>, options |-> Some({"xfs"})],
      [vg |-> <<"vg0">>, name |-> <<"vm">>, options |-> Some({"raw"})] }

NoPolicy ==
    [hourlySnapshots |-> None, dailySnapshots |-> None, weeklySnapshots |-> None,
     monthlySnapshots |-> None, yearlySnapshots |-> None]

Policies ==
    { NoPolicy,
      [hourlySnapshots |-> Some(24), dailySnapshots |-> Some(7), weeklySnapshots |-> Some(0),
       monthlySnapshots |-> None, yearlySnapshots |-> Some(1)] }

SourceLists == UNION {[1..n -> SourcePool] : n \in 0..MaxSources}

\* one VG entry per listed LV, in the order listed
VGsOf(l) == [k \in 1..Len(l) |-> [name |-> l[k].vg, LVs |-> <<[name |-> l[k].name, options |-> l[k].options]>>]]

YAMLs ==
    { [mounts_dir |-> mounts_dir, TargetVG |-> TargetVG, TargetLV |-> TargetLV,
       password |-> <<"secret">>, policy |-> p, VGs |-> VGsOf(l)] :
        p \in Policies, l \in SourceLists }

Args == [command : {"backup", "cleanup"}, prune : BOOLEAN]

\* the (vg, lv) pairs a configuration file names
Named(y) == {<<y.VGs[k].name, y.VGs[k].LVs[n].name>> : k \in 1..Len(y.VGs), n \in {1}}

IsRaw(y, vl) ==
    \E k \in 1..Len(y.VGs) :
        /\ <<y.VGs[k].name, y.VGs[k].LVs[1].name>> = vl
        /\ y.VGs[k].LVs[1].options # None
        /\ "raw" \in y.VGs[k].LVs[1].options[1]

\* what an earlier run can have left of a source: the source itself missing,
\* present, present with a stale snapshot, or with a stale snapshot still mounted
LVStates == {"absent", "present", "snapshot", "snapshot_mounted"}

TargetMounts ==
    LET dev == <<"/dev/mapper/">> \o TargetVG \o <<"-">> \o TargetLV
        dir == mounts_dir \o <<"/">> \o TargetVG \o <<"/">> \o TargetLV
    IN  { {},
          {[device |-> dev, dir |-> dir, ro |-> TRUE]},
          {[device |-> dev, dir |-> dir, ro |-> FALSE]},
          {[device |-> dev, dir |-> dir, ro |-> TRUE], [device |-> dev, dir |-> <<"/media/repo">>, ro |-> TRUE]} }

InitVolumes(y, st) ==
    {[vg |-> TargetVG, lv |-> TargetLV, gen |-> 0]}
    \cup {[vg |-> vl[1], lv |-> vl[2], gen |-> 0] : vl \in {x \in Named(y) : st[x] # "absent"}}
    \cup {[vg |-> vl[1], lv |-> vl[2] \o <<"_snapshot">>, gen |-> 0] :
            vl \in {x \in Named(y) : st[x] \in {"snapshot", "snapshot_mounted"}}}

InitPartmaps(y, st) ==
    {<<"/dev/mapper/">> \o vl[1] \o <<"-">> \o Replace(vl[2] \o <<"_snapshot">>) :
        vl \in {x \in Named(y) : st[x] = "snapshot_mounted" /\ IsRaw(y, x)}}

InitMounts(y, st) ==
    {[device |-> <<"/dev/mapper/">> \o vl[1] \o <<"-">> \o Replace(vl[2] \o <<"_snapshot">>)
                    \o (IF IsRaw(y, vl) THEN <<"1">> ELSE <<>>),
      dir |-> mounts_dir \o <<"/">> \o vl[1] \o <<"/">> \o vl[2] \o <<"_snapshot">>,
      ro |-> FALSE] :
        vl \in {x \in Named(y) : st[x] = "snapshot_mounted"}}

\* The retention counts and the prune flag are read by Backup.cleanup alone, so
\* the backup command is started without them.
Init ==
    /\ args \in Args
    /\ yaml \in YAMLs
    /\ args.command = "backup" => (~args.prune /\ yaml.policy = NoPolicy)
    /\ config = <<>>
    /\ pc = "main"
    /\ caller = ""
    /\ i = 0
    /\ exc = <<>>
    /\ result = "running"
    /\ log = <<>>
    /\ other = NoOther
    /\ \E st \in [Named(yaml) -> LVStates], tm \in TargetMounts :
        /\ volumes = InitVolumes(yaml, st)
        /\ partmaps = InitPartmaps(yaml, st)
        /\ mounts = tm \cup InitMounts(yaml, st)
        /\ dirs = {m.dir : m \in tm \cup InitMounts(yaml, st)}

-----------------------------------------------------------------------------
\* class Config

\* for vg in configYaml["VGs"]: for lv in vg["LVs"]: sources.append(Source(...))
RECURSIVE LVsOf(_, _)
LVsOf(vg, lvs) ==
    IF lvs = <<>> THEN <<>>
    ELSE <<Source(vg.name, Head(lvs).name, Head(lvs).options)>> \o LVsOf(vg, Tail(lvs))

RECURSIVE SourcesOf(_)
SourcesOf(vgs) == IF vgs = <<>> THEN <<>> ELSE LVsOf(Head(vgs), Head(vgs).LVs) \o SourcesOf(Tail(vgs))

Config(y, prune) ==
    [mounts_dir |-> y.mounts_dir,
     target_vg |-> y.TargetVG,
     target_lv |-> y.TargetLV,
     password |-> y.password,
     hourlySnapshots |-> y.policy.hourlySnapshots,
     dailySnapshots |-> y.policy.dailySnapshots,
     weeklySnapshots |-> y.policy.weeklySnapshots,
     monthlySnapshots |-> y.policy.monthlySnapshots,
     yearlySnapshots |-> y.policy.yearlySnapshots,
     prune |-> prune,
     sources |-> SourcesOf(y.VGs)]

\* Source.check_exists: the probe is run and its answer returned to a caller
\* that drops it
check_exists(sources) ==
    [k \in 1..Len(sources) |->
        LET cmd == cmd_lvs(sources[k].volume)
            o == CHOOSE x \in runCommandRetVal(cmd) : TRUE
        IN  [at |-> "Source.check_exists", by |-> "", src |-> k, env |-> cmd.env, argv |-> cmd.argv,
             ignore |-> TRUE, rc |-> o.rc]]

-----------------------------------------------------------------------------
\* Control flow: where the program stands, and where an exception takes it.

At(c, p) == [caller |-> c, pc |-> p, i |-> i, result |-> "running"]

Exit(r) == [caller |-> "", pc |-> "exit", i |-> i, result |-> r]

Jump(loc) ==
    /\ caller' = loc.caller
    /\ pc' = loc.pc
    /\ i' = loc.i
    /\ result' = loc.result

\* for source in config.sources: the position at iteration k
for_source(k) ==
    IF k <= Len(config.sources) THEN [At("", "Snapshot.create") EXCEPT !.i = k] ELSE Exit("ok")

\* self of the LVolume method running for the caller
self(c) == IF c = "Backup.backup" THEN source_volume(config.sources[i]) ELSE target_volume

\* backup_finally with its two calls exchanged
backup_finally_exchanged == <<"Snapshot.remove", "Backup.close">>

\* the calls of the finally block of backup(), in order
backup_finally == <<"Backup.close", "Snapshot.remove">>

\* the calls of the finally block of cleanup()
cleanup_finally == <<"Backup.close">>

\* reraise with the exception in flight swallowed
reraise_swallowed(e, next) == next

\* the end of a finally block: the exception in flight, if any, goes on
reraise(e, next) == IF e # <<>> THEN Exit("uncaught") ELSE next

\* the position at call k of the finally block of the running command, and
\* past its last call what follows the try statement
finally(k, e) ==
    LET calls == IF args.command = "backup" THEN backup_finally ELSE cleanup_finally
    IN  IF k > Len(calls)
        THEN reraise(e, IF args.command = "backup" THEN for_source(i + 1) ELSE Exit("ok"))
        ELSE IF calls[k] = "Backup.close" THEN At("Backup.close", "LVolume.umount")
        ELSE At("", "Snapshot.remove")

\* the position after call name of the finally block has returned
after_call(name, e) ==
    LET calls == IF args.command = "backup" THEN backup_finally ELSE cleanup_finally
    IN  finally(1 + CHOOSE k \in 1..Len(calls) : calls[k] = name, e)

\* where a BackupException raised by runCommand at position (c, p) is taken:
\* the innermost enclosing finally block, or out of the program
on_raise(c, p) ==
    CASE p = "Backup.__run_backup" -> At("Backup.backup", "LVolume.umount")
      [] p = "Backup.cleanup" -> finally(1, <<>>)
      [] c = "Backup.backup" -> finally(1, <<>>)
      [] OTHER -> Exit("uncaught")

\* where LVolume.mount returns to
after_mount(c, e) ==
    CASE c = "Backup.__init__" -> At("", "Backup.__init__:snapshots")
      [] c = "Backup.backup" -> At("", "Backup.__run_backup:Popen")
      [] c = "Backup.close" -> after_call("Backup.close", e)

\* where LVolume.umount returns to
after_umount(c) ==
    CASE c = "Backup.__init__" -> At("Backup.__init__", "LVolume.mount")
      [] c = "Backup.backup" -> finally(1, <<>>)
      [] c = "Backup.close" -> At("Backup.close", "LVolume.mount")

\* runCommand: the outcome is taken; a non-zero exit code raises
runCommand(cmd, o, next) ==
    /\ o \in runCommandRetVal(cmd)
    /\ Issue(cmd, o, FALSE)
    /\ IF o.rc # 0
       THEN Jump(on_raise(caller, pc)) /\ exc' = cmd.argv
       ELSE Jump(next) /\ exc' = exc

-----------------------------------------------------------------------------
\* main

main ==
    /\ pc = "main"
    /\ config' = Config(yaml, args.prune)
    /\ log' = log \o check_exists(SourcesOf(yaml.VGs))
    /\ pc' = "check_dependencies"
    /\ UNCHANGED <<args, yaml, other, caller, i, exc, result, world>>

\* check_dependencies with the exit codes of the probes dropped
check_dependencies_unchecked ==
    /\ pc = "check_dependencies"
    /\ \E rcs \in {<<1, 0>>, <<0, 1>>, <<0, 0>>} :
        /\ log' = log \o [k \in 1..Len(rcs) |->
                            [at |-> pc, by |-> "", src |-> 0, env |-> <<>>,
                             argv |-> <<(<<RESTIC, LVS>>)[k]>>, ignore |-> TRUE, rc |-> rcs[k]]]
        /\ IF args.command = "backup"
           THEN Jump(for_source(1))
           ELSE Jump(At("", "Backup.__init__"))
    /\ UNCHANGED <<args, yaml, config, other, exc, world>>

\* check_dependencies, its except clause in main, and the dispatch on the command
check_dependencies ==
    /\ pc = "check_dependencies"
    /\ \E rcs \in {<<1>>, <<0, 1>>, <<0, 0>>} :
        /\ log' = log \o [k \in 1..Len(rcs) |->
                            [at |-> pc, by |-> "", src |-> 0, env |-> <<>>,
                             argv |-> <<(<<RESTIC, LVS>>)[k]>>, ignore |-> TRUE, rc |-> rcs[k]]]
        /\ IF \E k \in 1..Len(rcs) : rcs[k] # 0
           THEN Jump(Exit("deps_missing"))
           ELSE IF args.command = "backup"
                THEN Jump(for_source(1))
                ELSE Jump(At("", "Backup.__init__"))
    /\ UNCHANGED <<args, yaml, config, other, exc, world>>

-----------------------------------------------------------------------------
\* class Snapshot

\* Snapshot_create made to wait while the other process is inside backup()
Snapshot_create_locked ==
    /\ pc = "Snapshot.create"
    /\ other.pc \in {"main", "check_dependencies", "exit"}
    /\ LET snapshot == Snapshot(config.sources[i])
           cmd == cmd_lvs(snapshot.volume)
       IN  \E o \in runCommandRetVal(cmd) :
            /\ Issue(cmd, o, TRUE)
            /\ pc' = IF o.rc = 0 THEN "Snapshot.create:remove" ELSE "Snapshot.create:lvcreate"
    /\ UNCHANGED <<args, yaml, config, other, caller, i, exc, result, dirs>>

\* Snapshot.create up to the branch on self.volume.exists()
Snapshot_create ==
    /\ pc = "Snapshot.create"
    /\ LET snapshot == Snapshot(config.sources[i])
           cmd == cmd_lvs(snapshot.volume)
       IN  \E o \in runCommandRetVal(cmd) :
            /\ Issue(cmd, o, TRUE)
            /\ pc' = IF o.rc = 0 THEN "Snapshot.create:remove" ELSE "Snapshot.create:lvcreate"
    /\ UNCHANGED <<args, yaml, config, other, caller, i, exc, result, dirs>>

\* self.volume.remove() of Snapshot.create: the answer is dropped
Snapshot_create_remove ==
    /\ pc = "Snapshot.create:remove"
    /\ LET cmd == cmd_lvremove(Snapshot(config.sources[i]).volume)
       IN  \E o \in runCommandRetVal(cmd) : Issue(cmd, o, TRUE)
    /\ pc' = "Snapshot.create:lvcreate"
    /\ UNCHANGED <<args, yaml, config, other, caller, i, exc, result, dirs>>

Snapshot_create_lvcreate ==
    /\ pc = "Snapshot.create:lvcreate"
    /\ \E o \in runCommandRetVal(cmd_lvcreate(Snapshot(config.sources[i]))) :
        runCommand(cmd_lvcreate(Snapshot(config.sources[i])), o, At("", "Backup.__init__"))
    /\ UNCHANGED <<args, yaml, config, other, dirs>>

\* Snapshot.remove, then the end of the finally block of backup()
Snapshot_remove ==
    /\ pc = "Snapshot.remove"
    /\ LET cmd == cmd_lvremove(Snapshot(config.sources[i]).volume)
       IN  \E o \in runCommandRetVal(cmd) : Issue(cmd, o, TRUE)
    /\ Jump(after_call("Snapshot.remove", exc))
    /\ UNCHANGED <<args, yaml, config, other, exc, dirs>>

-----------------------------------------------------------------------------
\* class LVolume, for the volume self(caller)

\* LVolume.mount up to the command: the is_mounted probe, whose
\* BackupException is built and dropped, and the mount directory
LVolume_mount ==
    /\ pc = "LVolume.mount"
    /\ LET cmd == cmd_findmnt(self(caller))
       IN  \E o \in runCommandRetVal(cmd) : Issue(cmd, o, TRUE)
    /\ dirs' = dirs \cup {to_mount_dir(self(caller))}
    /\ pc' = IF self(caller).raw THEN "LVolume.map_raw" ELSE "LVolume.mount:run"
    /\ UNCHANGED <<args, yaml, config, other, caller, i, exc, result>>

LVolume_map_raw ==
    /\ pc = "LVolume.map_raw"
    /\ \E o \in runCommandRetVal(cmd_map_raw(self(caller))) :
        runCommand(cmd_map_raw(self(caller)), o, At(caller, "LVolume.mount:run"))
    /\ UNCHANGED <<args, yaml, config, other, dirs>>

LVolume_mount_run ==
    /\ pc = "LVolume.mount:run"
    /\ \E o \in runCommandRetVal(cmd_mount(self(caller), caller = "Backup.close")) :
        runCommand(cmd_mount(self(caller), caller = "Backup.close"), o, after_mount(caller, exc))
    /\ UNCHANGED <<args, yaml, config, other, dirs>>

LVolume_umount ==
    /\ pc = "LVolume.umount"
    /\ \E o \in runCommandRetVal(cmd_umount(self(caller))) :
        runCommand(cmd_umount(self(caller)), o,
                   IF self(caller).raw THEN At(caller, "LVolume.unmap_raw") ELSE after_umount(caller))
    /\ UNCHANGED <<args, yaml, config, other, dirs>>

LVolume_unmap_raw ==
    /\ pc = "LVolume.unmap_raw"
    /\ \E o \in runCommandRetVal(cmd_unmap_raw(self(caller))) :
        runCommand(cmd_unmap_raw(self(caller)), o, after_umount(caller))
    /\ UNCHANGED <<args, yaml, config, other, dirs>>

-----------------------------------------------------------------------------
\* class Backup

\* Backup.__init__ up to the branch on self.volume.is_mounted()
Backup_init ==
    /\ pc = "Backup.__init__"
    /\ LET cmd == cmd_findmnt(target_volume)
       IN  \E o \in runCommandRetVal(cmd) :
            /\ Issue(cmd, o, TRUE)
            /\ Jump(At("Backup.__init__", IF o.rc = 0 THEN "LVolume.umount" ELSE "LVolume.mount"))
    /\ UNCHANGED <<args, yaml, config, other, exc, dirs>>

\* the restic snapshots probe of Backup.__init__: a BackupException is built
\* when the probe answers 0 and is never raised; then the body of the try
\* block of backup() or cleanup()
Backup_init_snapshots ==
    /\ pc = "Backup.__init__:snapshots"
    /\ \E o \in runCommandRetVal(cmd_snapshots) : Issue(cmd_snapshots, o, TRUE)
    /\ Jump(IF args.command = "backup" THEN At("Backup.backup", "LVolume.mount")
            ELSE At("", "Backup.cleanup"))
    /\ UNCHANGED <<args, yaml, config, other, exc, dirs>>

\* Backup.__run_backup, inside the try block of Backup.backup: the restic
\* process is started (subprocess.Popen) and runs from here on
Backup_run_backup_Popen ==
    /\ pc = "Backup.__run_backup:Popen"
    /\ pc' = "Backup.__run_backup"
    /\ UNCHANGED <<args, yaml, config, other, caller, i, exc, result, log, world>>

\* Backup.__run_backup, waiting for the restic process (p.communicate): its
\* exit code is taken
Backup_run_backup ==
    /\ pc = "Backup.__run_backup"
    /\ \E o \in runCommandRetVal(cmd_backup(Snapshot(config.sources[i]))) :
        runCommand(cmd_backup(Snapshot(config.sources[i])), o, At("Backup.backup", "LVolume.umount"))
    /\ UNCHANGED <<args, yaml, config, other, dirs>>

\* Backup.cleanup, inside the try block of cleanup()
Backup_cleanup ==
    /\ pc = "Backup.cleanup"
    /\ \E o \in runCommandRetVal(cmd_forget) :
        runCommand(cmd_forget, o, finally(1, <<>>))
    /\ UNCHANGED <<args, yaml, config, other, dirs>>

-----------------------------------------------------------------------------

Next ==
    \/ main
    \/ check_dependencies
    \/ Snapshot_create
    \/ Snapshot_create_remove
    \/ Snapshot_create_lvcreate
    \/ Backup_init
    \/ Backup_init_snapshots
    \/ LVolume_mount
    \/ LVolume_map_raw
    \/ LVolume_mount_run
    \/ Backup_run_backup_Popen
    \/ Backup_run_backup
    \/ Backup_cleanup
    \/ LVolume_umount
    \/ LVolume_unmap_raw
    \/ Snapshot_remove

Spec == Init /\ [][Next]_vars

-----------------------------------------------------------------------------
\* The cleanup command over every combination of retention counts: a
\* configuration file that lists no volume group, each count absent, 0 or a
\* number of its own, with and without --prune.

RetentionPolicies ==
    [hourlySnapshots : {None, Some(0), Some(24)},
     dailySnapshots : {None, Some(0), Some(7)},
     weeklySnapshots : {None, Some(0), Some(4)},
     monthlySnapshots : {None, Some(0), Some(12)},
     yearlySnapshots : {None, Some(1)}]

InitRetention ==
    /\ args \in [command : {"cleanup"}, prune : BOOLEAN]
    /\ yaml \in { [mounts_dir |-> mounts_dir, TargetVG |-> TargetVG, TargetLV |-> TargetLV,
                   password |-> <<"secret">>, policy |-> p, VGs |-> <<>>] : p \in RetentionPolicies }
    /\ config = <<>>
    /\ pc = "main"
    /\ caller = ""
    /\ i = 0
    /\ exc = <<>>
    /\ result = "running"
    /\ log = <<>>
    /\ other = NoOther
    /\ \E tm \in TargetMounts :
        /\ volumes = InitVolumes(yaml, <<>>)
        /\ partmaps = {}
        /\ mounts = tm
        /\ dirs = {m.dir : m \in tm}

\* the steps of cleanup()
NextRetention ==
    \/ main
    \/ check_dependencies
    \/ Backup_init
    \/ Backup_init_snapshots
    \/ LVolume_mount
    \/ LVolume_mount_run
    \/ Backup_cleanup
    \/ LVolume_umount

SpecRetention == InitRetention /\ [][NextRetention]_vars

-----------------------------------------------------------------------------
\* The backup command over names and roots of every shape: one source without
\* options, its name any text of letters and dashes up to MaxLen symbols that
\* does not begin with a dash (the volume manager refuses such a name), in a
\* volume group with or without a dash, under two roots.

LVNames ==
    {s \in UNION {[1..n -> {"a", "-"}] : n \in 1..MaxLen} : s[1] # "-"}
    \cup {<<"data", "-", "01">>}

VGNames == {<<"vg0">>, <<"vg", "-", "1">>}

Roots == {<<"/mnt">>, <<"/srv", "/", "backup">>}

InitPaths ==
    /\ args = [command |-> "backup", prune |-> FALSE]
    /\ yaml \in { [mounts_dir |-> r, TargetVG |-> TargetVG, TargetLV |-> TargetLV,
                   password |-> <<"secret">>, policy |-> NoPolicy,
                   VGs |-> <<[name |-> vg, LVs |-> <<[name |-> lv, options |-> None]>>]>>] :
                    r \in Roots, vg \in VGNames, lv \in LVNames }
    /\ config = <<>>
    /\ pc = "main"
    /\ caller = ""
    /\ i = 0
    /\ exc = <<>>
    /\ result = "running"
    /\ log = <<>>
    /\ other = NoOther
    /\ \E st \in [Named(yaml) -> {"present", "snapshot"}] :
        /\ volumes = InitVolumes(yaml, st)
        /\ partmaps = {}
        /\ mounts = {}
        /\ dirs = {}

\* the steps of backup() for a source without the raw option
NextPaths ==
    \/ main
    \/ check_dependencies
    \/ Snapshot_create
    \/ Snapshot_create_remove
    \/ Snapshot_create_lvcreate
    \/ Backup_init
    \/ Backup_init_snapshots
    \/ LVolume_mount
    \/ LVolume_mount_run
    \/ Backup_run_backup_Popen
    \/ Backup_run_backup
    \/ LVolume_umount
    \/ Snapshot_remove

SpecPaths == InitPaths /\ [][NextPaths]_vars

-----------------------------------------------------------------------------
\* The backup command over a configuration file in which one source bears the
\* name the snapshot of another is given: vg0/data-01 and vg0/data-01_snapshot,
\* one of them or both, in either order.

AliasPool ==
    { [vg |-> <<"vg0">>, name |-> <<"data", "-", "01">>, options |-> None],
      [vg |-> <<"vg0">>, name |-> <<"data", "-", "01", "_snapshot">>, options |-> None] }

InitAlias ==
    /\ args = [command |-> "backup", prune |-> FALSE]
    /\ yaml \in { [mounts_dir |-> mounts_dir, TargetVG |-> TargetVG, TargetLV |-> TargetLV,
                   password |-> <<"secret">>, policy |-> NoPolicy, VGs |-> VGsOf(l)] :
                    l \in [{1} -> AliasPool] \cup [{1, 2} -> AliasPool] }
    /\ config = <<>>
    /\ pc = "main"
    /\ caller = ""
    /\ i = 0
    /\ exc = <<>>
    /\ result = "running"
    /\ log = <<>>
    /\ other = NoOther
    /\ \E st \in [Named(yaml) -> {"absent", "present", "snapshot"}], tm \in TargetMounts :
        /\ volumes = InitVolumes(yaml, st)
        /\ partmaps = {}
        /\ mounts = tm
        /\ dirs = {m.dir : m \in tm}

SpecAlias == InitAlias /\ [][NextPaths]_vars

-----------------------------------------------------------------------------
\* Two processes of the program started with the backup command on the same
\* configuration file, which lists vg0/data-01 and the raw vg0/vm.  They share
\* the machine (volumes, mounts, partmaps, dirs) and nothing else; the log
\* holds the commands of both in the order they ended.  One process runs at a
\* time.  A command is one step, but for restic backup, which runs between
\* Backup_run_backup_Popen and Backup_run_backup; Switch passes the processor
\* to the other process while the running one waits for its restic backup, or
\* when it has ended, MaxSwitches times at most.  These are some of the
\* interleavings two processes have, not all of them.

InitTwo ==
    /\ args = [command |-> "backup", prune |-> FALSE]
    /\ yaml = [mounts_dir |-> mounts_dir, TargetVG |-> TargetVG, TargetLV |-> TargetLV,
               password |-> <<"secret">>, policy |-> NoPolicy,
               VGs |-> VGsOf(<<[vg |-> <<"vg0">>, name |-> <<"data", "-", "01">>, options |-> None],
                               [vg |-> <<"vg0">>, name |-> <<"vm">>, options |-> Some({"raw"})]>>)]
    /\ config = <<>>
    /\ pc = "main"
    /\ caller = ""
    /\ i = 0
    /\ exc = <<>>
    /\ result = "running"
    /\ log = <<>>
    /\ other = [pc |-> "main", caller |-> "", i |-> 0, exc |-> <<>>, result |-> "running",
                left |-> MaxSwitches]
    /\ \E tm \in TargetMounts :
        /\ volumes = InitVolumes(yaml, [x \in Named(yaml) |-> "present"])
        /\ partmaps = {}
        /\ mounts = tm
        /\ dirs = {m.dir : m \in tm}

\* the processor passes to the other process
Switch ==
    /\ pc \in {"Backup.__run_backup", "exit"}
    /\ other.left > 0
    /\ other.result = "running"
    /\ pc' = other.pc
    /\ caller' = other.caller
    /\ i' = other.i
    /\ exc' = other.exc
    /\ result' = other.result
    /\ other' = [pc |-> pc, caller |-> caller, i |-> i, exc |-> exc, result |-> result,
                 left |-> other.left - 1]
    /\ UNCHANGED <<args, yaml, config, log, world>>

NextTwo ==
    \/ main
    \/ check_dependencies
    \/ Snapshot_create
    \/ Snapshot_create_remove
    \/ Snapshot_create_lvcreate
    \/ Backup_init
    \/ Backup_init_snapshots
    \/ LVolume_mount
    \/ LVolume_map_raw
    \/ LVolume_mount_run
    \/ Backup_run_backup_Popen
    \/ Backup_run_backup
    \/ LVolume_umount
    \/ LVolume_unmap_raw
    \/ Snapshot_remove
    \/ Switch

SpecTwo == InitTwo /\ [][NextTwo]_vars

-----------------------------------------------------------------------------
\* Reading the log.

Idx == 1..Len(log)

Prog(e) == e.argv[1][1]

\* a restic command with the given subcommand
IsRestic(e, sub) == Prog(e) = "restic" /\ Len(e.argv) >= 4 /\ e.argv[4] = <<sub>>

\* a command issued through runCommand that exited non-zero
Failed(e) == ~e.ignore /\ e.rc # 0

\* The step of a source's processing a command belongs to: 1 snapshot-create,
\* 2 session open, 3 effective-source mount, 4 backup invocation,
\* 5 effective-source unmount, 6 session close, 7 snapshot-remove; 0 for the
\* commands of Config and check_dependencies and for forget.
Phase(e) ==
    CASE e.at \in {"Snapshot.create", "Snapshot.create:remove", "Snapshot.create:lvcreate"} -> 1
      [] e.at \in {"Backup.__init__", "Backup.__init__:snapshots"} \/ e.by = "Backup.__init__" -> 2
      [] e.by = "Backup.backup" /\ e.at \in {"LVolume.mount", "LVolume.map_raw", "LVolume.mount:run"} -> 3
      [] e.at = "Backup.__run_backup" -> 4
      [] e.by = "Backup.backup" /\ e.at \in {"LVolume.umount", "LVolume.unmap_raw"} -> 5
      [] e.by = "Backup.close" -> 6
      [] e.at = "Snapshot.remove" -> 7
      [] OTHER -> 0

\* a command that changes the machine or the repository
Mutating(e) ==
    \/ Prog(e) \in {"lvcreate", "lvremove", "mount", "umount", "kpartx"}
    \/ IsRestic(e, "backup")
    \/ IsRestic(e, "forget")

\* the target volume is mounted on its mount directory, read-only, and nowhere read-write
TargetReadOnly ==
    /\ \E m \in mounts :
        m.device = to_device(target_volume) /\ m.dir = to_mount_dir(target_volume) /\ m.ro
    /\ \A m \in mounts : m.device = to_device(target_volume) => m.ro

\* the snapshot volume of source k is known to the volume manager
SnapshotExists(k) ==
    \E v \in volumes :
        v.vg = config.sources[k].volume.vg /\ v.lv = snapshot_lv(config.sources[k])

-----------------------------------------------------------------------------
\* C1.  Guaranteed release on backup failure: whenever the backup command of a
\* source has exited non-zero and the error has left backup(), the umount of
\* the effective source, the close of the session (umount of the target, then
\* its read-only mount) and the removal of the snapshot have all been issued
\* for that source.  (Stated on the commands issued, which is the least the
\* claim asks; it fails already.)
C1_GuaranteedRelease ==
    \A n \in Idx :
        (log[n].at = "Backup.__run_backup" /\ log[n].rc # 0 /\ result = "uncaught") =>
            /\ \E m \in Idx : m > n /\ log[m].src = log[n].src /\ Phase(log[m]) = 5
                              /\ Prog(log[m]) = "umount"
            /\ \E m \in Idx : m > n /\ log[m].src = log[n].src /\ Phase(log[m]) = 6
                              /\ Prog(log[m]) = "umount"
            /\ \E m \in Idx : m > n /\ log[m].src = log[n].src /\ Phase(log[m]) = 6
                              /\ Prog(log[m]) = "mount" /\ log[m].argv[3] = <<"ro">>
            /\ \E m \in Idx : m > n /\ log[m].src = log[n].src /\ Phase(log[m]) = 7
                              /\ Prog(log[m]) = "lvremove"

\* C2.  Snapshot removal is guaranteed: when the run has ended, every lvcreate
\* of Snapshot.create that exited 0 is followed by the lvremove of
\* Snapshot.remove for the same source.
C2_SnapshotRemoveGuaranteed ==
    result # "running" =>
        \A n \in Idx :
            (log[n].at = "Snapshot.create:lvcreate" /\ log[n].rc = 0) =>
                \E m \in Idx : m > n /\ log[m].src = log[n].src /\ log[m].at = "Snapshot.remove"

\* C3.  Per-source ordering: the commands of one source are issued in the
\* order snapshot-create, session open, effective-source mount, backup
\* invocation, effective-source unmount, session close, snapshot-remove, no
\* command of a later step before one of an earlier step, also when a step in
\* the middle fails; and a backup run that ends without error has gone through
\* all seven steps for every source.  The order is stated of the command
\* issued last against every command before it: holding in every state, it
\* holds of every command at the moment it is issued.
C3_PerSourceOrdering ==
    /\ (log # <<>> /\ Phase(log[Len(log)]) > 0) =>
        LET last == log[Len(log)]
            step == Phase(last)
        IN  \A m \in 1..(Len(log) - 1) :
                (log[m].src = last.src /\ Phase(log[m]) > 0) => Phase(log[m]) <= step
    /\ (result = "ok" /\ args.command = "backup") =>
        \A k \in 1..Len(config.sources) : \A step \in 1..7 :
            \E n \in Idx : log[n].src = k /\ Phase(log[n]) = step

\* C3 witness: the mount of the effective source failed and the snapshot
\* removal was still issued afterwards.
C3_Witness ==
    \E n, m \in Idx :
        /\ n < m
        /\ Phase(log[n]) = 3 /\ Prog(log[n]) = "mount" /\ log[n].rc # 0
        /\ log[m].src = log[n].src /\ log[m].at = "Snapshot.remove"

\* C4.  Fail-fast across sources: once a must-succeed command of source i has
\* failed, every later command belongs to the same source and to its release
\* steps (effective-source unmount, session close, snapshot-remove), so no
\* command of a later source is issued; and the run ends with the error.
C4_FailFast ==
    /\ \A m \in Idx :
        Failed(log[m]) =>
            \A n \in (m + 1)..Len(log) :
                /\ log[n].src = log[m].src
                /\ Phase(log[n]) >= 5
    /\ (pc = "exit" /\ \E m \in Idx : Failed(log[m])) => result = "uncaught"

\* C4 witness: two sources are configured, the backup invocation of the first
\* failed, and the run has ended.
C4_Witness ==
    /\ result = "uncaught"
    /\ Len(config.sources) = 2
    /\ \E n \in Idx : log[n].at = "Backup.__run_backup" /\ log[n].src = 1 /\ log[n].rc # 0
    /\ \E n \in Idx : log[n].at = "Snapshot.remove" /\ log[n].src = 1

\* C5.  Session close always leaves read-only: when Backup.close() has been
\* called and is over, the target volume is mounted, read-only.
C5_CloseLeavesReadOnly ==
    (log # <<>> /\ log[Len(log)].by = "Backup.close" /\ caller # "Backup.close") => TargetReadOnly

\* C6.  Idempotent snapshot creation: when Snapshot.create issues lvcreate, no
\* volume of the snapshot's name is left to make it fail, and after an lvcreate
\* that exited 0 there is exactly one volume of that name.
C6_IdempotentCreate ==
    /\ pc = "Snapshot.create:lvcreate" => ~SnapshotExists(i)
    /\ (log # <<>> /\ log[Len(log)].at = "Snapshot.create:lvcreate" /\ log[Len(log)].rc = 0) =>
        Cardinality({v \in volumes : v.vg = config.sources[i].volume.vg
                                     /\ v.lv = snapshot_lv(config.sources[i])}) = 1

\* C7.  Raw-disk remapping: the effective source of a raw source is mounted
\* from partition device <device>1 of the snapshot, right after a kpartx -a of
\* the snapshot's device that exited 0; a umount of it that exited 0 is
\* followed at once by kpartx -d of that device, and kpartx -d is issued only
\* there; no kpartx command is issued for a source without raw, nor for the
\* target volume.
C7_RawRemapping ==
    \A n \in Idx :
        LET e == log[n]
            raw == e.src >= 1 /\ Phase(e) \in {3, 5} /\ "raw" \in config.sources[e.src].options
            dev == to_device(Snapshot(config.sources[e.src]).volume)
        IN  /\ (raw /\ Prog(e) = "mount") =>
                /\ e.argv[Len(e.argv) - 1] = dev \o <<"1">>
                /\ n > 1 /\ log[n - 1].argv = <<(<<"kpartx">>), (<<"-v">>), (<<"-a">>), dev>>
                /\ log[n - 1].rc = 0 /\ log[n - 1].src = e.src
            /\ (raw /\ Prog(e) = "umount" /\ e.rc = 0) =>
                IF n = Len(log) THEN pc = "LVolume.unmap_raw"
                ELSE log[n + 1].argv = <<(<<"kpartx">>), (<<"-d">>), dev>> /\ log[n + 1].src = e.src
            /\ (Prog(e) = "kpartx" /\ e.argv[2] = <<"-d">>) =>
                /\ n > 1 /\ Prog(log[n - 1]) = "umount" /\ log[n - 1].rc = 0
                /\ log[n - 1].src = e.src /\ Phase(log[n - 1]) = 5
            /\ Prog(e) = "kpartx" => raw

\* C7 witness: a raw source went through kpartx -a, mount, umount and kpartx -d.
C7_Witness ==
    \E n \in Idx :
        /\ n > 4
        /\ Prog(log[n]) = "kpartx" /\ log[n].argv[2] = <<"-d">> /\ log[n].rc = 0
        /\ \E m \in 1..(n - 1) : Prog(log[m]) = "mount" /\ log[m].rc = 0 /\ Phase(log[m]) = 3
                                 /\ log[m].src = log[n].src

\* C8.  A failed liveness check stops the session: after a restic snapshots
\* probe that exited non-zero, no restic backup and no restic forget is issued.
C8_UninitializedRepositoryStops ==
    \A n, m \in Idx :
        (n < m /\ IsRestic(log[n], "snapshots") /\ log[n].rc # 0) =>
            ~(IsRestic(log[m], "backup") \/ IsRestic(log[m], "forget"))

\* C9.  Already mounted is a hard stop: after the is_mounted probe of
\* LVolume.mount has answered 0 (mounted), that call of mount issues neither
\* kpartx -a nor mount.
C9_AlreadyMountedStops ==
    \A n \in Idx :
        (n < Len(log) /\ log[n].at = "LVolume.mount" /\ log[n].rc = 0) =>
            log[n + 1].at \notin {"LVolume.map_raw", "LVolume.mount:run"}

\* C10.  An absent source fails the construction of the configuration: after
\* an lvs probe of Source.check_exists that exited non-zero, nothing but the
\* probes of the other sources is run.
C10_AbsentSourceFails ==
    (\E n \in Idx : log[n].at = "Source.check_exists" /\ log[n].rc # 0) =>
        \A m \in Idx : log[m].at = "Source.check_exists"

\* C11.  Retention flag construction: the words of the forget command after
\* "forget" hold, for each of the hourly, daily, weekly and monthly counts of
\* the configuration file, the flag of that count followed by the count, once,
\* when the count is configured and not 0, and not at all when it is absent or
\* 0; they hold --prune exactly when the command line asked for it; and they
\* hold nothing else, so no flag of the yearly count.
C11_RetentionFlags ==
    \A n \in Idx :
        IsRestic(log[n], "forget") =>
            LET w == SubSeq(log[n].argv, 5, Len(log[n].argv))
                P == <<yaml.policy.hourlySnapshots, yaml.policy.dailySnapshots,
                       yaml.policy.weeklySnapshots, yaml.policy.monthlySnapshots>>
                F == <<"--keep-hourly", "--keep-daily", "--keep-weekly", "--keep-monthly">>
                where(f) == {k \in 1..Len(w) : w[k] = <<f>>}
            IN  /\ \A j \in 1..4 :
                    IF P[j] # None /\ P[j] # Some(0)
                    THEN \E k \in 1..(Len(w) - 1) :
                            where(F[j]) = {k} /\ w[k + 1] = <<ToString(P[j][1])>>
                    ELSE where(F[j]) = {}
                /\ (where("--prune") # {}) <=> args.prune
                /\ where("--keep-yearly") = {}
                /\ \A k \in 1..Len(w) :
                    \/ \E j \in 1..4 : w[k] = <<F[j]>>
                    \/ k > 1 /\ \E j \in 1..4 : w[k - 1] = <<F[j]>>
                    \/ w[k] = <<"--prune">>

\* C11 witness: hourly 24, daily 7, weekly 0, monthly absent and --prune give
\* forget --keep-hourly 24 --keep-daily 7 --prune.
C11_Witness ==
    /\ yaml.policy.weeklySnapshots = Some(0)
    /\ yaml.policy.monthlySnapshots = None
    /\ yaml.policy.yearlySnapshots = Some(1)
    /\ \E n \in Idx :
        /\ IsRestic(log[n], "forget")
        /\ SubSeq(log[n].argv, 5, Len(log[n].argv))
            = <<(<<"--keep-hourly">>), (<<"24">>), (<<"--keep-daily">>), (<<"7">>), (<<"--prune">>)>>

\* C12.  Retention run lifecycle: a cleanup run opens one session on the
\* target volume and issues forget at most once; it issues no lvcreate, no
\* lvremove and no kpartx, and mounts and unmounts nothing but the target
\* volume; and when it has ended after forget was issued, whether forget
\* exited 0 or not, Backup.close has issued the umount of the target and then
\* its read-only mount.
C12_RetentionLifecycle ==
    args.command = "cleanup" =>
        /\ Cardinality({n \in Idx : log[n].at = "Backup.__init__"}) <= 1
        /\ Cardinality({n \in Idx : IsRestic(log[n], "forget")}) <= 1
        /\ \A n \in Idx :
            /\ Prog(log[n]) \notin {"lvcreate", "lvremove", "kpartx"}
            /\ Prog(log[n]) = "mount" =>
                /\ log[n].argv[Len(log[n].argv)] = to_mount_dir(target_volume)
                /\ log[n].argv[Len(log[n].argv) - 1] = to_device(target_volume)
            /\ Prog(log[n]) = "umount" => log[n].argv[2] = to_mount_dir(target_volume)
        /\ \A n \in Idx :
            (IsRestic(log[n], "forget") /\ pc = "exit") =>
                \E m, k \in Idx :
                    /\ n < m /\ m < k
                    /\ log[m].by = "Backup.close" /\ Prog(log[m]) = "umount"
                    /\ log[k].by = "Backup.close" /\ Prog(log[k]) = "mount"
                    /\ log[k].argv[3] = <<"ro">>

\* C13.  Dependency check precedes mutation: when a probe of
\* check_dependencies (restic, lvs) has exited non-zero, the process has ended
\* with exit(1) and the run holds no mutating command (lvcreate, lvremove,
\* mount, umount, kpartx, restic backup, restic forget), in this state and in
\* every later one; and a mutating command is issued only after both probes
\* have exited 0 (stated of the command issued last, so of every command at
\* the moment it is issued).
C13_DependencyCheckPrecedesMutation ==
    /\ (\E n \in Idx : log[n].at = "check_dependencies" /\ log[n].rc # 0) =>
        /\ pc = "exit"
        /\ result = "deps_missing"
        /\ \A m \in Idx : ~Mutating(log[m])
    /\ (log # <<>> /\ Mutating(log[Len(log)])) =>
        \E a \in 1..(Len(log) - 2) :
            /\ log[a].at = "check_dependencies" /\ log[a].argv = <<RESTIC>> /\ log[a].rc = 0
            /\ log[a + 1].at = "check_dependencies" /\ log[a + 1].argv = <<LVS>> /\ log[a + 1].rc = 0

\* C13 witness: a backup run over two sources in which restic answered and
\* lvs did not, ended by exit(1).
C13_Witness ==
    /\ args.command = "backup"
    /\ pc = "exit"
    /\ result = "deps_missing"
    /\ Len(config.sources) = 2
    /\ \E n \in Idx : log[n].at = "check_dependencies" /\ log[n].argv = <<LVS>> /\ log[n].rc # 0

\* the number of dashes among the first k symbols of a text
Dashes(s, k) == Cardinality({j \in 1..k : s[j] = "-"})

\* t is s with every "-" replaced by "--": symbol k of s stands in t after
\* the symbols before it and one more per dash before it, a dash is followed
\* by a second one, and t holds nothing else
Doubled(s, t) ==
    /\ Len(t) = Len(s) + Dashes(s, Len(s))
    /\ \A k \in 1..Len(s) :
        /\ t[k + Dashes(s, k - 1)] = s[k]
        /\ s[k] = "-" => t[k + Dashes(s, k - 1) + 1] = "-"

\* p is r/vg/lv
IsMountDirOf(p, r, vg, lv) == p = r \o <<"/">> \o vg \o <<"/">> \o lv

\* d is /dev/mapper/vg-lv' with lv' the doubling of lv
IsDeviceOf(d, vg, lv) ==
    /\ Len(d) >= Len(vg) + 2
    /\ SubSeq(d, 1, Len(vg) + 2) = <<"/dev/mapper/">> \o vg \o <<"-">>
    /\ Doubled(lv, SubSeq(d, Len(vg) + 3, Len(d)))

\* C14.  Path derivation: for the volume of every source, and for the
\* snapshot and target volumes named in the commands, to_mount_dir() is
\* r/vg/lv with lv as configured and to_device() is /dev/mapper/vg-lv' with
\* lv' the name lv, every "-" of it replaced by "--" and nothing else changed:
\* in the lvs probe of the source, in the mount of the snapshot and of the
\* target, and in the two paths of the backup command.
C14_PathDerivation ==
    pc # "main" =>
        LET r == yaml.mounts_dir
            vg == yaml.VGs[1].name
            lv == yaml.VGs[1].LVs[1].name
        IN  /\ IsMountDirOf(to_mount_dir(config.sources[1].volume), r, vg, lv)
            /\ IsDeviceOf(to_device(config.sources[1].volume), vg, lv)
            /\ \A n \in Idx :
                LET e == log[n] IN
                /\ e.at = "Source.check_exists" => IsDeviceOf(e.argv[2], vg, lv)
                /\ (e.at = "LVolume.mount:run" /\ e.by = "Backup.backup") =>
                    /\ IsDeviceOf(e.argv[Len(e.argv) - 1], vg, lv \o <<"_snapshot">>)
                    /\ IsMountDirOf(e.argv[Len(e.argv)], r, vg, lv \o <<"_snapshot">>)
                /\ (e.at = "LVolume.mount:run" /\ e.by # "Backup.backup") =>
                    /\ IsDeviceOf(e.argv[Len(e.argv) - 1], yaml.TargetVG, yaml.TargetLV)
                    /\ IsMountDirOf(e.argv[Len(e.argv)], r, yaml.TargetVG, yaml.TargetLV)
                /\ e.at = "Backup.__run_backup" =>
                    /\ IsMountDirOf(e.argv[3], r, yaml.TargetVG, yaml.TargetLV)
                    /\ IsMountDirOf(e.argv[5], r, vg, lv \o <<"_snapshot">>)

\* C14 witness: vg0, data-01 and /mnt: the source was probed as
\* /dev/mapper/vg0-data--01 and its snapshot mounted on
\* /mnt/vg0/data-01_snapshot from /dev/mapper/vg0-data--01_snapshot.
C14_Witness ==
    /\ pc # "main"
    /\ to_mount_dir(config.sources[1].volume) = <<"/mnt", "/", "vg0", "/", "data", "-", "01">>
    /\ \E n \in Idx :
        /\ log[n].at = "Source.check_exists"
        /\ log[n].argv[2] = <<"/dev/mapper/", "vg0", "-", "data", "-", "-", "01">>
    /\ \E n \in Idx :
        /\ log[n].at = "LVolume.mount:run" /\ log[n].by = "Backup.backup" /\ log[n].rc = 0
        /\ log[n].argv = <<(<<"mount">>),
                           (<<"/dev/mapper/", "vg0", "-", "data", "-", "-", "01", "_snapshot">>),
                           (<<"/mnt", "/", "vg0", "/", "data", "-", "01", "_snapshot">>)>>

\* C15.  A failed volume-manager command of the snapshot is fatal: after an
\* lvcreate or lvremove of Snapshot.create or Snapshot.remove that exited
\* non-zero, the run does not end without error, and every later command is a
\* release command of the same source.
C15_VolumeManagerFailureFatal ==
    \A n \in Idx :
        (Prog(log[n]) \in {"lvcreate", "lvremove"} /\ log[n].rc # 0) =>
            /\ result # "ok"
            /\ \A m \in (n + 1)..Len(log) : log[m].src = log[n].src /\ Phase(log[m]) >= 5

\* C16.  Single ownership across sources: in a backup run at most one volume
\* created by the run exists at any time; and when the first command of
\* Snapshot.create is issued for source k + 1, no snapshot volume the run
\* created for source k is left, the effective source volume of source k is
\* not mounted, and the target volume is mounted read-only.
C16_SingleOwnership ==
    args.command = "backup" =>
        /\ Cardinality({v \in volumes : v.gen > 0}) <= 1
        /\ (log # <<>> /\ log[Len(log)].at = "Snapshot.create" /\ log[Len(log)].src >= 2) =>
            LET source == config.sources[log[Len(log)].src - 1] IN
            /\ ~\E v \in volumes :
                    v.gen > 0 /\ v.vg = source.volume.vg /\ v.lv = snapshot_lv(source)
            /\ ~IsMounted(mount_device(source_volume(source)))
            /\ TargetReadOnly

\* C17.  No stray partition maps or mounts: when the run has ended, every
\* kpartx -a that exited 0 is followed by a kpartx -d for the same source, and
\* every mount of an effective source that exited 0 is followed by its umount.
C17_NoStrayMapsOrMounts ==
    pc = "exit" =>
        \A n \in Idx :
            /\ (log[n].at = "LVolume.map_raw" /\ log[n].rc = 0) =>
                \E m \in (n + 1)..Len(log) :
                    log[m].at = "LVolume.unmap_raw" /\ log[m].src = log[n].src
            /\ (Phase(log[n]) = 3 /\ Prog(log[n]) = "mount" /\ log[n].rc = 0) =>
                \E m \in (n + 1)..Len(log) :
                    Phase(log[m]) = 5 /\ Prog(log[m]) = "umount" /\ log[m].src = log[n].src

\* C18.  Two instances are unguarded: a process that has not ended is never
\* made to wait for the other one; at every position its next command can be
\* issued, whatever the position of the other process, also while the restic
\* backup of the other process is running.  (So nothing keeps the run from the
\* state of C18_Witness.)
C18_TwoInstancesUnguarded == result = "running" => ENABLED Next

\* C18 witness: the restic backup of one process, for its second source, is
\* running; since that process mounted the snapshot of the source, the other
\* process has unmounted the target volume when it opened its session for the
\* first source, and has then issued lvremove of the snapshot the first
\* process is backing up, in Snapshot.create for the second source.
C18_Witness ==
    /\ other.pc = "Backup.__run_backup" /\ other.i = 2
    /\ \E a, n, m \in Idx :
        /\ a < n /\ n < m
        /\ log[a].at = "LVolume.mount:run" /\ log[a].by = "Backup.backup"
        /\ log[a].src = 2 /\ log[a].rc = 0
        /\ \A k \in a..Len(log) : log[k].at = "Backup.__run_backup" => log[k].src = 1
        /\ log[n].by = "Backup.__init__" /\ log[n].src = 1 /\ log[n].rc = 0
        /\ log[n].argv = <<(<<"umount">>), to_mount_dir(target_volume)>>
        /\ log[m].at = "Snapshot.create:remove" /\ log[m].src = 2
        /\ log[m].argv[3] = config.sources[other.i].volume.vg \o <<"/">>
                             \o snapshot_lv(config.sources[other.i])

\* C19.  A configured source is never removed: the volume of a source that
\* the lvs probe of Source.check_exists found when the run began is still
\* there, in every state of a backup run, also when another source of the
\* same volume group is named <lv>_snapshot after it; only volumes that are
\* snapshots are removed.
C19_SourceNeverRemoved ==
    \A n \in Idx :
        (log[n].at = "Source.check_exists" /\ log[n].rc = 0) =>
            \E v \in volumes :
                /\ v.gen = 0
                /\ v.vg = config.sources[log[n].src].volume.vg
                /\ v.lv = config.sources[log[n].src].volume.lv

\* C20.  State at the backup command: from the moment the restic backup
\* command of a source is started until its exit code is taken, the snapshot
\* volume the run created for the source exists, the effective source volume
\* is mounted on the directory the command is given as the path to back up,
\* and the target volume is mounted read-write on the directory the command
\* is given as the repository, whatever the target's mounts were at the start.
C20_StateAtBackup ==
    pc \in {"Backup.__run_backup", "Backup.__run_backup:Popen"} =>
        LET source == config.sources[i]
            cmd == cmd_backup(Snapshot(source))
        IN  /\ \E v \in volumes :
                v.gen > 0 /\ v.vg = source.volume.vg /\ v.lv = snapshot_lv(source)
            /\ \E m \in mounts :
                m.device = mount_device(source_volume(source)) /\ m.dir = cmd.argv[5]
            /\ \E m \in mounts :
                m.device = to_device(target_volume) /\ m.dir = cmd.argv[3] /\ ~m.ro

\* C20 witness: the restic backup of a raw source is running in a run that
\* found the target volume mounted read-only and unmounted it first.
C20_Witness ==
    /\ pc = "Backup.__run_backup"
    /\ "raw" \in config.sources[i].options
    /\ \E n \in Idx :
        /\ log[n].by = "Backup.__init__" /\ Prog(log[n]) = "umount" /\ log[n].rc = 0
        /\ log[n].src = i

====
